---- MODULE Spec2Model ----
(***************************************************************************)
(* The settings module pelicanconf.py and the generation run that loads    *)
(* it.  The module body is a straight line of assignment statements; the   *)
(* generator executes it once (the load) and its consumers (templating,    *)
(* feed generation, static-file copying) then read the resulting           *)
(* namespace.  The consumers belong to the external generator and are      *)
(* modelled from the specification's description of them.                  *)
(***************************************************************************)
EXTENDS Integers, Sequences, FiniteSets, TLC

(***************************************************************************)
(* Python values.  A str is a TLA+ string, except SITEURL, which is kept   *)
(* as its sequence of characters because its structure is examined.        *)
(* A tuple or list is a sequence, a dict is a function.                    *)
(***************************************************************************)
None == [py |-> "None"]

unicode_literals == [py |-> "_Feature"]

AUTHOR == "Andy Gocke"

SITENAME == "comment out"

SITEURL == <<"l","o","c","a","l","h","o","s","t",":","8","0","0","0">>

TIMEZONE == "America/Los_Angeles"

DEFAULT_LANG == "en"

DEFAULT_DATE_FORMAT == "%Y. %b. %d"

THEME_empty == ""

THEME == "themes/commentout"

FEED_ALL_ATOM == None

CATEGORY_FEED_ATOM == None

TRANSLATION_FEED_ATOM == None

AUTHOR_FEED_ATOM == None

AUTHOR_FEED_RSS == None

STATIC_PATHS == <<"extras/CNAME", "extras/favicon.ico", "images">>

\* the favicon remapped onto the CNAME target
EXTRA_PATH_METADATA_collide ==
    ("extras/CNAME" :> [path |-> "CNAME"]) @@
    ("extras/favicon.ico" :> [path |-> "CNAME"])

\* a third mapping added
EXTRA_PATH_METADATA_three ==
    ("extras/CNAME" :> [path |-> "CNAME"]) @@
    ("extras/favicon.ico" :> [path |-> "favicon.ico"]) @@
    ("images" :> [path |-> "img"])

EXTRA_PATH_METADATA ==
    ("extras/CNAME" :> [path |-> "CNAME"]) @@
    ("extras/favicon.ico" :> [path |-> "favicon.ico"])

LINKS ==
    << <<"Pelican", "http://getpelican.com/">>,
       <<"Python.org", "http://python.org/">>,
       <<"Jinja2", "http://jinja.pocoo.org/">>,
       <<"You can modify those links in your config file", "#">> >>

SOCIAL ==
    << <<"You can add links in your config file", "#">>,
       <<"Another social link", "#">> >>

DEFAULT_PAGINATION == FALSE

MD_EXTENSIONS == <<"codehilite(css_class=highlight)", "extra">>

St(n, v) == [name |-> n, value |-> v]

\* SITEURL assigned a second time further down the module
Stmts_reassign ==
    << St("unicode_literals", unicode_literals),
       St("AUTHOR", AUTHOR),
       St("SITENAME", SITENAME),
       St("SITEURL", SITEURL),
       St("TIMEZONE", TIMEZONE),
       St("DEFAULT_LANG", DEFAULT_LANG),
       St("DEFAULT_DATE_FORMAT", DEFAULT_DATE_FORMAT),
       St("THEME", THEME),
       St("FEED_ALL_ATOM", FEED_ALL_ATOM),
       St("CATEGORY_FEED_ATOM", CATEGORY_FEED_ATOM),
       St("TRANSLATION_FEED_ATOM", TRANSLATION_FEED_ATOM),
       St("AUTHOR_FEED_ATOM", AUTHOR_FEED_ATOM),
       St("AUTHOR_FEED_RSS", AUTHOR_FEED_RSS),
       St("STATIC_PATHS", STATIC_PATHS),
       St("EXTRA_PATH_METADATA", EXTRA_PATH_METADATA),
       St("LINKS", LINKS),
       St("SOCIAL", SOCIAL),
       St("DEFAULT_PAGINATION", DEFAULT_PAGINATION),
       St("SITEURL", SITEURL),
       St("MD_EXTENSIONS", MD_EXTENSIONS) >>

\* The statements of the module body, in textual order.
Stmts ==
    << St("unicode_literals", unicode_literals),
       St("AUTHOR", AUTHOR),
       St("SITENAME", SITENAME),
       St("SITEURL", SITEURL),
       St("TIMEZONE", TIMEZONE),
       St("DEFAULT_LANG", DEFAULT_LANG),
       St("DEFAULT_DATE_FORMAT", DEFAULT_DATE_FORMAT),
       St("THEME", THEME),
       St("FEED_ALL_ATOM", FEED_ALL_ATOM),
       St("CATEGORY_FEED_ATOM", CATEGORY_FEED_ATOM),
       St("TRANSLATION_FEED_ATOM", TRANSLATION_FEED_ATOM),
       St("AUTHOR_FEED_ATOM", AUTHOR_FEED_ATOM),
       St("AUTHOR_FEED_RSS", AUTHOR_FEED_RSS),
       St("STATIC_PATHS", STATIC_PATHS),
       St("EXTRA_PATH_METADATA", EXTRA_PATH_METADATA),
       St("LINKS", LINKS),
       St("SOCIAL", SOCIAL),
       St("DEFAULT_PAGINATION", DEFAULT_PAGINATION),
       St("MD_EXTENSIONS", MD_EXTENSIONS) >>

\* The settings of the configuration record.
SettingNames ==
    {"AUTHOR", "SITENAME", "SITEURL", "TIMEZONE", "DEFAULT_LANG",
     "DEFAULT_DATE_FORMAT", "THEME", "FEED_ALL_ATOM", "CATEGORY_FEED_ATOM",
     "TRANSLATION_FEED_ATOM", "AUTHOR_FEED_ATOM", "AUTHOR_FEED_RSS",
     "STATIC_PATHS", "EXTRA_PATH_METADATA", "LINKS", "SOCIAL",
     "DEFAULT_PAGINATION", "MD_EXTENSIONS"}

FeedNames ==
    {"FEED_ALL_ATOM", "CATEGORY_FEED_ATOM", "TRANSLATION_FEED_ATOM",
     "AUTHOR_FEED_ATOM", "AUTHOR_FEED_RSS"}

StmtNames == {Stmts[i].name : i \in 1..Len(Stmts)}

Reverse(s) == [i \in 1..Len(s) |-> s[Len(s) + 1 - i]]

\* the load keeps the link lists in the opposite order
Bind_reversed(namespace, name, value) ==
    [k \in DOMAIN namespace \cup {name} |->
        IF k = name
        THEN (IF name \in {"LINKS", "SOCIAL"} THEN Reverse(value) ELSE value)
        ELSE namespace[k]]

\* NAME = value: the name is bound to the value in the module namespace.
Bind(namespace, name, value) ==
    [k \in DOMAIN namespace \cup {name} |->
        IF k = name THEN value ELSE namespace[k]]

VARIABLES
    pc,         \* index of the next statement of the module body
    ns,         \* the module namespace, name -> value
    stores,     \* history: how many times each name has been assigned
    loads,      \* history: how many times the module body has been entered
    reads,      \* history: the settings read by consumers so far
    linksOut,   \* the (label, URL) pairs of LINKS handed to the theme
    socialOut,  \* the (label, URL) pairs of SOCIAL handed to the theme
    copied,     \* the static paths copied, with their output locations
    feedsSeen,  \* the feed settings examined by feed generation
    feedsOut    \* the feed settings for which a feed was written

vars == <<pc, ns, stores, loads, reads, linksOut, socialOut, copied,
          feedsSeen, feedsOut>>

consumerVars == <<reads, linksOut, socialOut, copied, feedsSeen, feedsOut>>

loadVars == <<pc, ns, stores, loads>>

Init ==
    /\ pc = 1
    /\ ns = [k \in {} |-> None]
    /\ stores = [k \in StmtNames |-> 0]
    /\ loads = 0
    /\ reads = {}
    /\ linksOut = <<>>
    /\ socialOut = <<>>
    /\ copied = <<>>
    /\ feedsSeen = {}
    /\ feedsOut = {}

\* the load is reported finished one statement early
loaded_early == pc > Len(Stmts) - 1

\* The module body has run to its end.
loaded == pc > Len(Stmts)

\* One statement of the module body.
ExecStmt ==
    /\ pc <= Len(Stmts)
    /\ ns' = Bind(ns, Stmts[pc].name, Stmts[pc].value)
    /\ stores' = [stores EXCEPT ![Stmts[pc].name] = @ + 1]
    /\ loads' = IF pc = 1 THEN loads + 1 ELSE loads
    /\ pc' = pc + 1
    /\ UNCHANGED consumerVars

\* an entry without a mapping is rejected
OutputLocation_strict(namespace, p) ==
    IF p \in DOMAIN namespace["EXTRA_PATH_METADATA"]
    THEN namespace["EXTRA_PATH_METADATA"][p].path
    ELSE "ERROR"

\* Where the static path p is placed in the output.
OutputLocation(namespace, p) ==
    IF p \in DOMAIN namespace["EXTRA_PATH_METADATA"]
    THEN namespace["EXTRA_PATH_METADATA"][p].path
    ELSE p

\* Templating hands the next pair of LINKS to the theme.
RenderLink ==
    /\ loaded
    /\ Len(linksOut) < Len(ns["LINKS"])
    /\ linksOut' = Append(linksOut, ns["LINKS"][Len(linksOut) + 1])
    /\ reads' = reads \cup {"LINKS"}
    /\ UNCHANGED <<loadVars, socialOut, copied, feedsSeen, feedsOut>>

\* Templating hands the next pair of SOCIAL to the theme.
RenderSocial ==
    /\ loaded
    /\ Len(socialOut) < Len(ns["SOCIAL"])
    /\ socialOut' = Append(socialOut, ns["SOCIAL"][Len(socialOut) + 1])
    /\ reads' = reads \cup {"SOCIAL"}
    /\ UNCHANGED <<loadVars, linksOut, copied, feedsSeen, feedsOut>>

\* Static-file copying places the next entry of STATIC_PATHS.
CopyStatic ==
    /\ loaded
    /\ Len(copied) < Len(ns["STATIC_PATHS"])
    /\ LET p == ns["STATIC_PATHS"][Len(copied) + 1]
       IN  copied' = Append(copied, [src |-> p, out |-> OutputLocation(ns, p)])
    /\ reads' = reads \cup {"STATIC_PATHS", "EXTRA_PATH_METADATA"}
    /\ UNCHANGED <<loadVars, linksOut, socialOut, feedsSeen, feedsOut>>

\* Feed generation examines one feed setting and writes the feed if it is set.
GenerateFeed ==
    /\ loaded
    /\ \E f \in FeedNames \ feedsSeen :
          /\ feedsSeen' = feedsSeen \cup {f}
          /\ feedsOut' = IF ns[f] # None THEN feedsOut \cup {f} ELSE feedsOut
          /\ reads' = reads \cup {f}
    /\ UNCHANGED <<loadVars, linksOut, socialOut, copied>>

Next ==
    \/ ExecStmt
    \/ RenderLink
    \/ RenderSocial
    \/ CopyStatic
    \/ GenerateFeed

Spec == Init /\ [][Next]_vars

(***************************************************************************)
(* URL structure, on the character sequence of a site_url.                 *)
(***************************************************************************)
Min(S) == CHOOSE x \in S : \A y \in S : x <= y

SchemeSep == <<":", "/", "/">>

SepPositions(u) ==
    {i \in 1..Len(u) : i + 2 <= Len(u) /\ SubSeq(u, i, i + 2) = SchemeSep}

AfterScheme(u) ==
    IF SepPositions(u) = {} THEN u
    ELSE SubSeq(u, Min(SepPositions(u)) + 3, Len(u))

UpTo(s, stops) ==
    LET at == {i \in 1..Len(s) : s[i] \in stops}
    IN  IF at = {} THEN s ELSE SubSeq(s, 1, Min(at) - 1)

Authority(u) == UpTo(AfterScheme(u), {"/", "?", "#"})

HostName(u) == UpTo(Authority(u), {":"})

\* a scheme, then '://', then a non-empty host
IsAbsoluteURL(u) ==
    /\ SepPositions(u) # {}
    /\ Min(SepPositions(u)) > 1
    /\ Len(HostName(u)) > 0

Localhost == <<"l","o","c","a","l","h","o","s","t">>

Localhost8000 == Localhost \o <<":","8","0","0","0">>

HttpLocalhost8000 == <<"h","t","t","p">> \o SchemeSep \o Localhost8000

RelativeUrlsActive ==
    "RELATIVE_URLS" \in DOMAIN ns /\ ns["RELATIVE_URLS"] = TRUE

\* feed_flags: the feed kind of each feed setting, and whether a kind is on
FeedKindOf ==
    ("FEED_ALL_ATOM" :> "all") @@
    ("CATEGORY_FEED_ATOM" :> "category") @@
    ("TRANSLATION_FEED_ATOM" :> "translation") @@
    ("AUTHOR_FEED_ATOM" :> "author") @@
    ("AUTHOR_FEED_RSS" :> "author")

FeedFlags ==
    [k \in {FeedKindOf[f] : f \in FeedNames \cap DOMAIN ns} |->
        \E f \in FeedNames \cap DOMAIN ns : FeedKindOf[f] = k /\ ns[f] # None]

AllFeedsDisabled ==
    /\ FeedNames \subseteq DOMAIN ns
    /\ \A k \in DOMAIN FeedFlags : ~FeedFlags[k]

FullyLoaded == SettingNames \subseteq DOMAIN ns

AssignedOnce == \A k \in SettingNames : k \in DOMAIN ns /\ stores[k] = 1

GenerationDone ==
    /\ loaded
    /\ Len(linksOut) = Len(ns["LINKS"])
    /\ Len(socialOut) = Len(ns["SOCIAL"])
    /\ Len(copied) = Len(ns["STATIC_PATHS"])
    /\ feedsSeen = FeedNames

IsPrefix(s, t) == Len(s) <= Len(t) /\ s = SubSeq(t, 1, Len(s))

Range(s) == {s[i] : i \in 1..Len(s)}

\* C1: once the record is loaded every setting has been assigned exactly
\* once, and no later step of the run changes the value of any setting.
C1_ImmutableAfterLoad ==
    /\ [](loaded => AssignedOnce)
    /\ [][loaded => ns' = ns]_vars
    /\ [][\A k \in DOMAIN ns : k \in DOMAIN ns' /\ ns'[k] = ns[k]]_vars

C1_Witness == GenerationDone /\ AssignedOnce

\* C2: the module body is entered at most once, and every step in which a
\* consumer reads a setting starts in a state where the record is fully
\* loaded by exactly one load.
C2_LoadBeforeRead ==
    /\ [](loads <= 1 /\ (reads # {} => loads = 1 /\ FullyLoaded))
    /\ [][reads' # reads => (loaded /\ FullyLoaded /\ loads = 1)]_vars

C2_Witness == loads = 1 /\ reads = {"LINKS"} /\ FullyLoaded

\* C3: when the relative-URL override is not active, the loaded site_url is
\* an absolute URL: a scheme, '://' and a non-empty host.
C3_SiteUrlAbsolute ==
    (loaded /\ ~RelativeUrlsActive) => IsAbsoluteURL(ns["SITEURL"])

\* C4: the settings module whose site_url points at localhost:8000 loads
\* with site_url 'http://localhost:8000' and exactly four feed kinds, all
\* of them disabled.
C4_DevelopmentVariant ==
    (loaded /\ Authority(ns["SITEURL"]) = Localhost8000) =>
        /\ ns["SITEURL"] = HttpLocalhost8000
        /\ Cardinality(DOMAIN FeedFlags) = 4
        /\ AllFeedsDisabled

CarriesMappings ==
    /\ "EXTRA_PATH_METADATA" \in DOMAIN ns
    /\ DOMAIN ns["EXTRA_PATH_METADATA"] # {}

CarriesStaticPaths ==
    /\ "STATIC_PATHS" \in DOMAIN ns
    /\ Len(ns["STATIC_PATHS"]) > 0

TwoMappings ==
    /\ Cardinality(DOMAIN ns["EXTRA_PATH_METADATA"]) = 2
    /\ {ns["EXTRA_PATH_METADATA"][p].path :
            p \in DOMAIN ns["EXTRA_PATH_METADATA"]} = {"favicon.ico", "CNAME"}

IsPublicURL(u) == IsAbsoluteURL(u) /\ HostName(u) # Localhost

RequiredKeys ==
    {"AUTHOR", "SITENAME", "SITEURL", "TIMEZONE", "DEFAULT_LANG", "THEME"}

\* C6: after the load every required key is present with a non-empty
\* value; in particular THEME is a non-empty path identifier.
C6_RequiredKeysPresent ==
    loaded => \A k \in RequiredKeys : k \in DOMAIN ns /\ Len(ns[k]) > 0

C6_Witness ==
    loaded /\ RequiredKeys \subseteq DOMAIN ns /\ ns["THEME"] = "themes/commentout"

\* C7: the loaded LINKS and SOCIAL are the declared sequences, and the
\* pairs handed to the consumer are always an in-order prefix of the
\* declared sequence, the whole of it once the consumer has finished.
C7_LinkOrderPreserved ==
    /\ IsPrefix(linksOut, LINKS)
    /\ IsPrefix(socialOut, SOCIAL)
    /\ loaded =>
          /\ ns["LINKS"] = LINKS
          /\ ns["SOCIAL"] = SOCIAL
          /\ Len(linksOut) = Len(ns["LINKS"]) => linksOut = LINKS
          /\ Len(socialOut) = Len(ns["SOCIAL"]) => socialOut = SOCIAL

C7_Witness == linksOut = LINKS /\ socialOut = SOCIAL

\* C8: every copied static path is placed at the 'path' target of its
\* extra_path_metadata entry when it has one and at itself otherwise; the
\* entries are copied in order and none is skipped or rejected.
C8_StaticPlacement ==
    /\ \A i \in 1..Len(copied) :
          LET p == copied[i].src
          IN  /\ p = STATIC_PATHS[i]
              /\ p \in DOMAIN EXTRA_PATH_METADATA =>
                    copied[i].out = EXTRA_PATH_METADATA[p].path
              /\ p \notin DOMAIN EXTRA_PATH_METADATA => copied[i].out = p
    /\ Len(copied) <= Len(STATIC_PATHS)

C8_Witness ==
    /\ Len(copied) = Len(STATIC_PATHS)
    /\ \E i \in 1..Len(copied) :
          copied[i].src = "images" /\ copied[i].out = "images"
    /\ \E i \in 1..Len(copied) :
          copied[i].src = "extras/CNAME" /\ copied[i].out = "CNAME"

\* C10: every key of EXTRA_PATH_METADATA is an entry of STATIC_PATHS, and
\* no two distinct entries of STATIC_PATHS have the same output location.
C10_MappingCollisionFree ==
    loaded =>
        /\ DOMAIN ns["EXTRA_PATH_METADATA"] \subseteq Range(ns["STATIC_PATHS"])
        /\ \A p, q \in Range(ns["STATIC_PATHS"]) :
              p # q => OutputLocation(ns, p) # OutputLocation(ns, q)

C10_Witness ==
    /\ loaded
    /\ Cardinality(Range(ns["STATIC_PATHS"])) = 3
    /\ Cardinality({OutputLocation(ns, p) : p \in Range(ns["STATIC_PATHS"])}) = 3

====
